---- MODULE Spec2Model ----
(***************************************************************************)
(* Face extraction (stage1.py: prepare_faces and its helpers) and          *)
(* recombination (stage3.py: recombine_panel) of manga_face_reenact.       *)
(*                                                                         *)
(* Pixel coordinates are integers.  Python floats appear only as           *)
(* half-integers (x1 + width / 2, side_length / 2) and are kept exactly as *)
(* numerators over 2; int() is truncation toward zero.  Landmark           *)
(* coordinates (floats in the program) are given in half pixels.           *)
(***************************************************************************)
EXTENDS Integers, Sequences, FiniteSets, TLC

VARIABLES
    rect, sq, sq2, spc,          \* to_square_bbox applied once and twice to a rectangle
    run, pc,                     \* prepare_faces: invocation number, position
    mode, faces,                 \* the arguments / detector output of the current invocation
    square_bounding_boxes,       \* stage1.py:83
    ref_points,                  \* stage1.py:37 (module global)
    drags,                       \* history: corners of the boxes completed since the last reset
    ret,                         \* how the last prepare_faces invocation ended
    dirExists, faceFiles,        \* output_dir/<source_name>/ and its face_<i>.png files
    metaRun, metaRecords,        \* output_dir/<source_name>/metadata.json
    fs0,                         \* history: the file system when the invocation began
    rret, present, pasted, recombined_count, outWritten   \* recombine_panel

squareVars == <<rect, sq, sq2, spc>>
prepVars == <<run, pc, mode, faces, square_bounding_boxes, ref_points, drags, ret, fs0>>
fsVars == <<dirExists, faceFiles, metaRun, metaRecords>>
recVars == <<rret, present, pasted, recombined_count, outWritten>>
vars == <<squareVars, prepVars, fsVars, recVars>>

(* ------------------------------ bounds --------------------------------- *)
MaxCoord == 3        \* rectangles given to to_square_bbox have coordinates in -MaxCoord..MaxCoord
MaxFaces == 2        \* regions per prepare_faces invocation
MaxRefPoints == 3    \* length ref_points may grow to by repeated releases
MaxRuns == 2         \* prepare_faces invocations on the same source image

(* --------------------------- program constants ------------------------- *)
CanonicalRes == 512
PaddingFactor == 1

(* ------------------------------ arithmetic ----------------------------- *)
Max(a, b) == IF a >= b THEN a ELSE b
Abs(a) == IF a >= 0 THEN a ELSE -a

\* Python int() of the rational n/d (d > 0): truncation toward zero.
Trunc(n, d) == IF n >= 0 THEN n \div d ELSE -((-n) \div d)

(* --------------------------- box normalization ------------------------- *)
\* The slip "center_x = x1 + width" (the halving forgotten).
to_square_bbox_nohalf(bbox) ==
    LET x1 == bbox[1]
        y1 == bbox[2]
        width == bbox[3] - bbox[1]
        height == bbox[4] - bbox[2]
        cx2 == 2 * x1 + 2 * width
        cy2 == 2 * y1 + 2 * height
        side_length == Max(width, height)
    IN  <<Trunc(cx2 - side_length, 2), Trunc(cy2 - side_length, 2),
          Trunc(cx2 + side_length, 2), Trunc(cy2 + side_length, 2)>>

\* cx2, cy2 are twice center_x, center_y; side_length / 2 is side_length over 2.
to_square_bbox(bbox) ==
    LET x1 == bbox[1]
        y1 == bbox[2]
        width == bbox[3] - bbox[1]
        height == bbox[4] - bbox[2]
        cx2 == 2 * x1 + width
        cy2 == 2 * y1 + height
        side_length == Max(width, height)
    IN  <<Trunc(cx2 - side_length, 2), Trunc(cy2 - side_length, 2),
          Trunc(cx2 + side_length, 2), Trunc(cy2 + side_length, 2)>>

SetMin(S) == CHOOSE m \in S : \A n \in S : m <= n
SetMax(S) == CHOOSE m \in S : \A n \in S : m >= n

\* The slip "pad by half the dimension on each side" (the box doubles).
get_padded_landmark_bbox_half(landmarks) ==
    LET min_x == Trunc(SetMin({p[1] : p \in landmarks}), 2)
        min_y == Trunc(SetMin({p[2] : p \in landmarks}), 2)
        max_x == Trunc(SetMax({p[1] : p \in landmarks}), 2)
        max_y == Trunc(SetMax({p[2] : p \in landmarks}), 2)
        pad_x == Trunc((max_x - min_x) * PaddingFactor, 2)
        pad_y == Trunc((max_y - min_y) * PaddingFactor, 2)
    IN  <<min_x - pad_x, min_y - pad_y, max_x + pad_x, max_y + pad_y>>

\* landmarks: a set of points <<x, y>> in half pixels.
get_padded_landmark_bbox(landmarks) ==
    LET min_x == Trunc(SetMin({p[1] : p \in landmarks}), 2)
        min_y == Trunc(SetMin({p[2] : p \in landmarks}), 2)
        max_x == Trunc(SetMax({p[1] : p \in landmarks}), 2)
        max_y == Trunc(SetMax({p[2] : p \in landmarks}), 2)
        width == max_x - min_x
        height == max_y - min_y
        pad_x == Trunc(width * PaddingFactor, 1)
        pad_y == Trunc(height * PaddingFactor, 1)
    IN  <<min_x - pad_x, min_y - pad_y, max_x + pad_x, max_y + pad_y>>

IsSquareBox(b) == b[3] - b[1] = b[4] - b[2] /\ b[3] - b[1] >= 0


(* ------------------------------ data model ----------------------------- *)
\* A Python tuple and a Python list / JSON array holding the items s.
Tuple(s) == [py |-> "tuple", v |-> s]
List(s) == [py |-> "list", v |-> s]

\* f"face_{face_id}.png"
FaceFilename(face_id) == <<"face_", face_id, ".png">>

\* os.path.join(specific_output_dir, face_filename) and os.path.basename of it
JoinPath(dir, name) == [dir |-> dir, name |-> name]
Basename(path) == path.name

SpecificOutputDir == "prepared_faces_final/source"

\* Image.crop(box).size for a box with x1 <= x2 and y1 <= y2
CropSize(coords) == <<coords[3] - coords[1], coords[4] - coords[2]>>

\* The slip "face_id = i + 1" (ids counted from 1).
FaceMetadataOneBased(i, coords) ==
    [face_id |-> i + 1,
     face_image_512px_path |-> JoinPath(SpecificOutputDir, FaceFilename(i + 1)),
     original_size |-> Tuple(CropSize(coords)),
     paste_coordinates |-> Tuple(<<coords[1], coords[2]>>),
     original_bbox_square |-> Tuple(coords),
     source_image |-> "source.png"]

\* The record built in iteration i of the final loop for the box coords.
FaceMetadata(i, coords) ==
    [face_id |-> i,
     face_image_512px_path |-> JoinPath(SpecificOutputDir, FaceFilename(i)),
     original_size |-> Tuple(CropSize(coords)),
     paste_coordinates |-> Tuple(<<coords[1], coords[2]>>),
     original_bbox_square |-> Tuple(coords),
     source_image |-> "source.png"]

\* all_faces_metadata after the first n iterations of the loop over boxes
AllFacesMetadata(boxes, n) == [k \in 1..n |-> FaceMetadata(k - 1, boxes[k])]

\* json.dump followed by json.load: every tuple comes back as a list.
JsonValue(x) == IF x.py = "tuple" THEN List(x.v) ELSE x
JsonRoundTrip(records) ==
    [k \in 1..Len(records) |->
        [records[k] EXCEPT !.original_size = JsonValue(@),
                           !.paste_coordinates = JsonValue(@),
                           !.original_bbox_square = JsonValue(@)]]

\* tuple(x) of a list or tuple
ToTuple(x) == Tuple(x.v)

(* ------------------------------- inputs -------------------------------- *)
Modes == {"auto", "manual", "video"}

\* Landmark sets in half pixels.  ScenarioLandmarks has the bounding
\* rectangle (100,100)-(200,250); OddLandmarks has fractional coordinates.
ScenarioLandmarks == {<<200, 200>>, <<400, 500>>, <<300, 350>>}
OddLandmarks == {<<3, 1>>, <<5, 5>>}
LandmarkSets == {ScenarioLandmarks, OddLandmarks}

RECURSIVE SeqsUpTo(_, _)
SeqsUpTo(S, n) ==
    IF n = 0 THEN {<<>>}
    ELSE LET shorter == SeqsUpTo(S, n - 1)
         IN  shorter \cup {Append(s, x) : s \in {t \in shorter : Len(t) = n - 1}, x \in S}

\* What app.get(source_img_cv) may return.
Detections == SeqsUpTo(LandmarkSets, MaxFaces)

\* Mouse positions.
Points == {<<0, 0>>, <<4, 1>>}

FaceIds == 0..(MaxFaces - 1)
Filenames == {FaceFilename(i) : i \in FaceIds}

(* ------------------------------ file system ---------------------------- *)
\* faceFiles maps the name of each face image in the directory to the
\* invocation that wrote it; metaRun is 0 while there is no metadata.json.
NoFiles == [n \in {} |-> 0]

FileSystem == [dir |-> dirExists, files |-> faceFiles, metaRun |-> metaRun,
               metaRecords |-> metaRecords]

NoRet == [kind |-> "none", value |-> <<>>]

RecombineIdle ==
    /\ rret = "none"
    /\ present = {}
    /\ pasted = <<>>
    /\ recombined_count = 0
    /\ outWritten = FALSE

PipelineIdle ==
    /\ run = 0
    /\ pc = "idle"
    /\ mode = "none"
    /\ faces = <<>>
    /\ square_bounding_boxes = <<>>
    /\ ref_points = <<>>
    /\ drags = <<>>
    /\ ret = NoRet
    /\ dirExists = FALSE
    /\ faceFiles = NoFiles
    /\ metaRun = 0
    /\ metaRecords = <<>>
    /\ fs0 = [dir |-> FALSE, files |-> NoFiles, metaRun |-> 0, metaRecords |-> <<>>]
    /\ RecombineIdle

SquareOff ==
    /\ rect = <<>>
    /\ sq = <<>>
    /\ sq2 = <<>>
    /\ spc = "off"


(* ---------------------------- prepare_faces ---------------------------- *)
\* The directory's face images after resized_face.save for each of records.
SavedFaces(files, records, r) ==
    LET names == {Basename(records[k].face_image_512px_path) : k \in 1..Len(records)}
    IN  [n \in (DOMAIN files) \cup names |-> IF n \in names THEN r ELSE files[n]]

\* Lines 69-82 for an image that opens: the sub-directory is made.
Begin(m) ==
    /\ pc = "idle"
    /\ run' = run + 1
    /\ mode' = m
    /\ fs0' = FileSystem
    /\ dirExists' = TRUE
    /\ drags' = <<>>
    /\ rret' = "none"
    /\ present' = {}
    /\ pasted' = <<>>
    /\ recombined_count' = 0
    /\ outWritten' = FALSE
    /\ UNCHANGED squareVars

\* The shared final processing step over boxes.  failAt = 0: every crop,
\* resize and save succeeds; failAt = k > 0: the k-th iteration raises.
FinalProcessing(boxes, failAt, r) ==
    IF Len(boxes) > 0
    THEN IF failAt = 0
         THEN LET all == AllFacesMetadata(boxes, Len(boxes))
              IN  /\ faceFiles' = SavedFaces(faceFiles, all, r)
                  /\ metaRun' = r
                  /\ metaRecords' = JsonRoundTrip(all)
                  /\ ret' = [kind |-> "returned", value |-> all]
         ELSE /\ faceFiles' = SavedFaces(faceFiles, AllFacesMetadata(boxes, failAt - 1), r)
              /\ ret' = [kind |-> "raised", value |-> <<>>]
              /\ UNCHANGED <<metaRun, metaRecords>>
    ELSE /\ ret' = [kind |-> "returned", value |-> <<>>]
         /\ UNCHANGED <<faceFiles, metaRun, metaRecords>>

\* Image.open raises FileNotFoundError: return [] (whatever the mode).
PrepareFacesNotFound(m) ==
    /\ pc = "idle"
    /\ run' = run + 1
    /\ mode' = m
    /\ fs0' = FileSystem
    /\ ret' = [kind |-> "not_found", value |-> <<>>]
    /\ faces' = <<>>
    /\ square_bounding_boxes' = <<>>
    /\ drags' = <<>>
    /\ rret' = "none"
    /\ present' = {}
    /\ pasted' = <<>>
    /\ recombined_count' = 0
    /\ outWritten' = FALSE
    /\ UNCHANGED <<pc, ref_points, fsVars, squareVars>>

\* mode == 'auto': the detector returns detected, each face is padded and squared.
PrepareFacesAuto(detected, failAt) ==
    /\ Begin("auto")
    /\ faces' = detected
    /\ square_bounding_boxes' =
           [k \in 1..Len(detected) |-> to_square_bbox(get_padded_landmark_bbox(detected[k]))]
    /\ failAt \in 0..Len(detected)
    /\ FinalProcessing(square_bounding_boxes', failAt, run')
    /\ UNCHANGED <<pc, ref_points>>

\* mode == 'manual': the window is opened and the event loop entered.
PrepareFacesManual ==
    /\ Begin("manual")
    /\ pc' = "ui"
    /\ faces' = <<>>
    /\ square_bounding_boxes' = <<>>
    /\ ret' = NoRet
    /\ UNCHANGED <<ref_points, faceFiles, metaRun, metaRecords>>

\* any other mode: raise ValueError (after the directory was made).
PrepareFacesInvalid(m) ==
    /\ m \notin {"auto", "manual"}
    /\ Begin(m)
    /\ faces' = <<>>
    /\ square_bounding_boxes' = <<>>
    /\ ret' = [kind |-> "ValueError", value |-> <<>>]
    /\ UNCHANGED <<pc, ref_points, faceFiles, metaRun, metaRecords>>

(* ------------------------- manual_crop_callback ------------------------ *)
\* The box appended for ref_points[0] = start_point, ref_points[1] = end_point.
ManualBox(start_point, end_point) ==
    LET dx == Abs(end_point[1] - start_point[1])
        dy == Abs(end_point[2] - start_point[2])
        side_length == Max(dx, dy)
    IN  <<start_point[1], start_point[2],
          start_point[1] + side_length, start_point[2] + side_length>>

\* event == cv2.EVENT_LBUTTONDOWN at (x, y)
MouseDown(p) ==
    /\ pc = "ui"
    /\ ref_points' = <<p>>
    /\ UNCHANGED <<run, pc, mode, faces, square_bounding_boxes, drags, ret, fs0>>
    /\ UNCHANGED <<fsVars, recVars, squareVars>>

\* event == cv2.EVENT_LBUTTONUP at (x, y).  With a single point in
\* ref_points after the append, ref_points[1] raises IndexError, which the
\* window's callback dispatcher reports and drops: no box is appended.
MouseUp(p) ==
    /\ pc = "ui"
    /\ Len(ref_points) < MaxRefPoints
    /\ ref_points' = Append(ref_points, p)
    /\ IF Len(ref_points') >= 2
       THEN /\ square_bounding_boxes' =
                   Append(square_bounding_boxes, ManualBox(ref_points'[1], ref_points'[2]))
            /\ drags' = Append(drags, <<ref_points'[1], ref_points'[2]>>)
       ELSE UNCHANGED <<square_bounding_boxes, drags>>
    /\ Len(square_bounding_boxes') <= MaxFaces
    /\ UNCHANGED <<run, pc, mode, faces, ret, fs0>>
    /\ UNCHANGED <<fsVars, recVars, squareVars>>

\* key == ord("r"): square_bounding_boxes.clear()
KeyR ==
    /\ pc = "ui"
    /\ square_bounding_boxes' = <<>>
    /\ drags' = <<>>
    /\ UNCHANGED <<run, pc, mode, faces, ref_points, ret, fs0>>
    /\ UNCHANGED <<fsVars, recVars, squareVars>>

\* key == ord("q"): leave the loop and run the final processing step.
KeyQ(failAt) ==
    /\ pc = "ui"
    /\ pc' = "idle"
    /\ failAt \in 0..Len(square_bounding_boxes)
    /\ FinalProcessing(square_bounding_boxes, failAt, run)
    /\ UNCHANGED <<run, mode, faces, square_bounding_boxes, ref_points, drags, fs0>>
    /\ UNCHANGED <<dirExists, recVars, squareVars>>


(* --------------------------- recombine_panel --------------------------- *)
\* The slip "paste at the canonical resolution" (the resize back forgotten).
ResizeTargetCanonical(face_data) == <<CanonicalRes, CanonicalRes>>

\* orig_size = tuple(face_data['original_size']), the size resized to
ResizeTarget(face_data) == ToTuple(face_data.original_size).v

\* paste_coords = tuple(face_data['paste_coordinates'])
PasteCoords(face_data) == ToTuple(face_data.paste_coordinates).v

\* The loop over all_faces_metadata from record k on.  st.count is
\* recombined_count, st.pasted the (size, position) of each paste made, in
\* order; st.raised is set when Image.resize rejects a size with a
\* dimension below 1 (ValueError), which nothing catches.
RECURSIVE RecombineLoop(_, _, _, _)
RecombineLoop(records, k, have, st) ==
    IF k > Len(records) THEN st
    ELSE LET face_data == records[k]
             name == Basename(face_data.face_image_512px_path)
             size == ResizeTarget(face_data)
         IN  IF name \notin have
             THEN RecombineLoop(records, k + 1, have, st)
             ELSE IF size[1] < 1 \/ size[2] < 1
                  THEN [st EXCEPT !.raised = TRUE]
                  ELSE RecombineLoop(records, k + 1, have,
                           [st EXCEPT !.count = @ + 1,
                                      !.pasted = Append(@, [face_id |-> face_data.face_id,
                                                            size |-> size,
                                                            at |-> PasteCoords(face_data)])])

\* recombine_panel on the metadata.json of the directory, with the
\* replacement files named in have present in reenacted_faces_dir.
RecombinePanel(panel_exists, have) ==
    /\ pc = "idle"
    /\ present' = have
    /\ IF ~panel_exists
       THEN /\ rret' = "no_panel"
            /\ pasted' = <<>>
            /\ recombined_count' = 0
            /\ outWritten' = FALSE
       ELSE IF metaRun = 0
       THEN /\ rret' = "no_metadata"
            /\ pasted' = <<>>
            /\ recombined_count' = 0
            /\ outWritten' = FALSE
       ELSE LET st == RecombineLoop(metaRecords, 1, have,
                          [count |-> 0, pasted |-> <<>>, raised |-> FALSE])
            IN  /\ rret' = IF st.raised THEN "ValueError" ELSE "done"
                /\ pasted' = st.pasted
                /\ recombined_count' = st.count
                /\ outWritten' = (~st.raised /\ st.count > 0)
    /\ UNCHANGED <<prepVars, fsVars, squareVars>>

(* ------------------- to_square_bbox on its own ------------------------- *)
Coords == (-MaxCoord)..MaxCoord
Rects == {r \in Coords \X Coords \X Coords \X Coords : r[1] <= r[3] /\ r[2] <= r[4]}

SquareOnce ==
    /\ spc = "input"
    /\ sq' = to_square_bbox(rect)
    /\ spc' = "squared"
    /\ UNCHANGED <<rect, sq2, prepVars, fsVars, recVars>>

SquareAgain ==
    /\ spc = "squared"
    /\ sq2' = to_square_bbox(sq)
    /\ spc' = "resquared"
    /\ UNCHANGED <<rect, sq, prepVars, fsVars, recVars>>

(* ---------------------------- specifications --------------------------- *)
Init == PipelineIdle /\ SquareOff

\* One extraction of the source image, then any number of recombinations.
Next ==
    \/ \E m \in Modes : run < 1 /\ PrepareFacesNotFound(m)
    \/ \E d \in Detections, f \in 0..MaxFaces : run < 1 /\ PrepareFacesAuto(d, f)
    \/ run < 1 /\ PrepareFacesManual
    \/ \E m \in Modes : run < 1 /\ PrepareFacesInvalid(m)
    \/ \E p \in Points : MouseDown(p)
    \/ \E p \in Points : MouseUp(p)
    \/ KeyR
    \/ \E f \in 0..MaxFaces : KeyQ(f)
    \/ \E e \in BOOLEAN, h \in SUBSET Filenames : RecombinePanel(e, h)

Spec == Init /\ [][Next]_vars

\* Up to MaxRuns extractions of the same source image into the same directory.
NextRuns ==
    \/ \E m \in Modes : run < MaxRuns /\ PrepareFacesNotFound(m)
    \/ \E d \in Detections, f \in 0..MaxFaces : run < MaxRuns /\ PrepareFacesAuto(d, f)
    \/ run < MaxRuns /\ PrepareFacesManual
    \/ \E m \in Modes : run < MaxRuns /\ PrepareFacesInvalid(m)
    \/ \E p \in Points : MouseDown(p)
    \/ \E p \in Points : MouseUp(p)
    \/ KeyR
    \/ \E f \in 0..MaxFaces : KeyQ(f)
    \/ \E e \in BOOLEAN, h \in SUBSET Filenames : RecombinePanel(e, h)

SpecRuns == Init /\ [][NextRuns]_vars

\* to_square_bbox applied to every rectangle with coordinates in Coords.
InitSquare ==
    /\ PipelineIdle
    /\ rect \in Rects
    /\ sq = <<>>
    /\ sq2 = <<>>
    /\ spc = "input"

NextSquare == SquareOnce \/ SquareAgain

SpecSquare == InitSquare /\ [][NextSquare]_vars


(* -------------------------------- claims ------------------------------- *)
\* The regions of the current invocation in input order: detection order in
\* auto mode, the boxes completed since the last reset key in manual mode.
InputRegions ==
    IF mode = "auto"
    THEN [k \in 1..Len(faces) |-> to_square_bbox(get_padded_landmark_bbox(faces[k]))]
    ELSE [k \in 1..Len(drags) |-> ManualBox(drags[k][1], drags[k][2])]

SquareSideIsMax ==
    spc \in {"squared", "resquared"} =>
        LET side == Max(rect[3] - rect[1], rect[4] - rect[2])
        IN  sq[3] - sq[1] = side /\ sq[4] - sq[2] = side

\* C3: to_square_bbox applied twice gives what it gives applied once, and
\* it returns an already square box unchanged.
SquaringIdempotent ==
    /\ (spc \in {"squared", "resquared"} /\ IsSquareBox(rect)) => sq = rect
    /\ spc = "resquared" => sq2 = sq

\* A rectangle that is not square was squared twice.
SquaringTwiceReached ==
    /\ spc = "resquared"
    /\ ~IsSquareBox(rect)
    /\ sq # rect

\* The landmark-mode scenario: one face whose landmarks have the bounding
\* rectangle (100,100)-(200,250), extracted successfully.
ScenarioRun ==
    /\ mode = "auto"
    /\ faces = <<ScenarioLandmarks>>
    /\ ret.kind = "returned"

EmptyInputNoSideEffects ==
    (mode \in {"auto", "manual"} /\ ret.kind = "returned" /\ Len(square_bounding_boxes) = 0) =>
        /\ ret.value = <<>>
        /\ FileSystem = fs0

\* C7: once recombine_panel has processed the records, the output image
\* was written if and only if some record's replacement file is present.
OutputIffReplacement ==
    rret \in {"done", "ValueError"} =>
        (outWritten <=>
            \E k \in 1..Len(metaRecords) :
                Basename(metaRecords[k].face_image_512px_path) \in present)

\* C8: every record of a metadata document in the directory refers to a
\* canonical image written by the invocation that wrote the document.
MetadataAllOrNothing ==
    metaRun # 0 =>
        \A k \in 1..Len(metaRecords) :
            LET name == Basename(metaRecords[k].face_image_512px_path)
            IN  name \in DOMAIN faceFiles /\ faceFiles[name] = metaRun

\* C9: with an unrecognized mode prepare_faces ends in the invalid-mode
\* rejection, having changed nothing in the file system.
InvalidModeRejected ==
    (mode \notin {"none", "auto", "manual"} /\ ret.kind # "none") =>
        /\ ret.kind = "ValueError"
        /\ FileSystem = fs0

\* C10: every box recorded in manual mode is the square of side
\* max(|r.x - p.x|, |r.y - p.y|) whose center is within 1 pixel per axis of
\* the center of the rectangle with corners p (press) and r (release).
ManualBoxCentered ==
    mode = "manual" =>
        \A i \in 1..Len(square_bounding_boxes) :
            LET p == drags[i][1]
                r == drags[i][2]
                b == square_bounding_boxes[i]
                side == Max(Abs(r[1] - p[1]), Abs(r[2] - p[2]))
            IN  /\ b[3] - b[1] = side
                /\ b[4] - b[2] = side
                /\ Abs((b[1] + b[3]) - (p[1] + r[1])) <= 2
                /\ Abs((b[2] + b[4]) - (p[2] + r[2])) <= 2

====
